---- MODULE Spec2Model ----
(***************************************************************************)
(* The bead-pixel editing store (store/useStore.ts), the grid helpers it   *)
(* calls (utils/imageProcessor.ts) and the App handlers that commit a      *)
(* pixelized image or an imported project to the store (App.tsx).          *)
(*                                                                         *)
(* A grid (PixelData) is a sequence of rows, each a sequence of cells; a   *)
(* cell is a colour id or Null.  The source indexes from 0, sequences here *)
(* from 1: source cell pixelData[y][x] is pixelData[y+1][x+1], source      *)
(* entry history[i] is history[i+1].  historyIndex keeps the source's      *)
(* 0-based value (-1 .. history.length-1).                                 *)
(*                                                                         *)
(* The pure functions (floodFill, medianCutQuantize, findClosestBeadColor, *)
(* pixelateImage) are also explored on their own: `call` holds the inputs  *)
(* of one call and, once the function has been applied, its result.        *)
(*                                                                         *)
(* `view` holds the rest of the store: ui, config and originalImage.       *)
(* ui.zoom is a fixed-point number in units of 0.001.                      *)
(***************************************************************************)
EXTENDS Integers, Sequences, FiniteSets, TLC

VARIABLES pixelData, history, historyIndex, hasLoadedImage, session, nOps, last, run, trip,
          call, view

vars ==
  <<pixelData, history, historyIndex, hasLoadedImage, session, nOps, last, run, trip,
    call, view>>

(***************************************************************************)
(* Program constants and the bounds of the exploration.                    *)
(***************************************************************************)
MAX_HISTORY == 50

\* initialConfig.width / initialConfig.height, scaled down
GridWidth == 2
GridHeight == 1

\* number of operations explored after the initial state
MaxOps == 3

Null == "null"
Colors == {"P01", "P02"}
CellValues == Colors \cup {Null}

\* coordinates a caller may pass: one step outside the grid on every side
XArgs == -1 .. GridWidth
YArgs == -1 .. GridHeight

(***************************************************************************)
(* utils/imageProcessor.ts                                                 *)
(***************************************************************************)
createEmptyPixelData(width, height) ==
  [y \in 1..height |-> [x \in 1..width |-> Null]]

\* variant: the neighbour above (x, y-1) is not enqueued
RECURSIVE floodFillLoop_noUp(_, _, _, _, _)
floodFillLoop_noUp(newData, queue, visited, targetColorId, newColorId) ==
  IF queue = <<>> THEN newData
  ELSE
    LET x == Head(queue)[1]
        y == Head(queue)[2]
        rest == Tail(queue)
        height == Len(newData)
        width == IF height > 0 THEN Len(newData[1]) ELSE 0
    IN  IF <<x, y>> \in visited
          THEN floodFillLoop_noUp(newData, rest, visited, targetColorId, newColorId)
        ELSE IF x < 0 \/ x >= width \/ y < 0 \/ y >= height
          THEN floodFillLoop_noUp(newData, rest, visited, targetColorId, newColorId)
        ELSE IF newData[y + 1][x + 1] # targetColorId
          THEN floodFillLoop_noUp(newData, rest, visited, targetColorId, newColorId)
        ELSE floodFillLoop_noUp(
               [newData EXCEPT ![y + 1][x + 1] = newColorId],
               rest \o << <<x + 1, y>>, <<x - 1, y>>, <<x, y + 1>> >>,
               visited \cup {<<x, y>>},
               targetColorId, newColorId)

\* variant: an in-range position is marked and its neighbours are enqueued
\* before its colour is looked at
RECURSIVE floodFillRun_pushAlways(_, _, _, _, _, _, _)
floodFillRun_pushAlways(newData, queue, visited, targetColorId, newColorId, dequeued, written) ==
  IF queue = <<>>
    THEN [newData |-> newData, dequeued |-> dequeued, written |-> written]
  ELSE
    LET x == Head(queue)[1]
        y == Head(queue)[2]
        rest == Tail(queue)
        height == Len(newData)
        width == IF height > 0 THEN Len(newData[1]) ELSE 0
        more == rest \o << <<x + 1, y>>, <<x - 1, y>>, <<x, y + 1>>, <<x, y - 1>> >>
    IN  IF <<x, y>> \in visited
          THEN floodFillRun_pushAlways(newData, rest, visited, targetColorId, newColorId,
                                       dequeued + 1, written)
        ELSE IF x < 0 \/ x >= width \/ y < 0 \/ y >= height
          THEN floodFillRun_pushAlways(newData, rest, visited, targetColorId, newColorId,
                                       dequeued + 1, written)
        ELSE IF newData[y + 1][x + 1] # targetColorId
          THEN floodFillRun_pushAlways(newData, more, visited \cup {<<x, y>>},
                                       targetColorId, newColorId, dequeued + 1, written)
        ELSE floodFillRun_pushAlways(
               [newData EXCEPT ![y + 1][x + 1] = newColorId],
               more, visited \cup {<<x, y>>}, targetColorId, newColorId,
               dequeued + 1, Append(written, <<x, y>>))

\* the while loop, with the number of queue.shift() calls made so far and the
\* cells assigned so far, in order
RECURSIVE floodFillRun(_, _, _, _, _, _, _)
floodFillRun(newData, queue, visited, targetColorId, newColorId, dequeued, written) ==
  IF queue = <<>>
    THEN [newData |-> newData, dequeued |-> dequeued, written |-> written]
  ELSE
    LET x == Head(queue)[1]
        y == Head(queue)[2]
        rest == Tail(queue)
        height == Len(newData)
        width == IF height > 0 THEN Len(newData[1]) ELSE 0
    IN  IF <<x, y>> \in visited
          THEN floodFillRun(newData, rest, visited, targetColorId, newColorId,
                            dequeued + 1, written)
        ELSE IF x < 0 \/ x >= width \/ y < 0 \/ y >= height
          THEN floodFillRun(newData, rest, visited, targetColorId, newColorId,
                            dequeued + 1, written)
        ELSE IF newData[y + 1][x + 1] # targetColorId
          THEN floodFillRun(newData, rest, visited, targetColorId, newColorId,
                            dequeued + 1, written)
        ELSE floodFillRun(
               [newData EXCEPT ![y + 1][x + 1] = newColorId],
               rest \o << <<x + 1, y>>, <<x - 1, y>>, <<x, y + 1>>, <<x, y - 1>> >>,
               visited \cup {<<x, y>>},
               targetColorId, newColorId, dequeued + 1, Append(written, <<x, y>>))

floodFillLoop(newData, queue, visited, targetColorId, newColorId) ==
  floodFillRun(newData, queue, visited, targetColorId, newColorId, 0, <<>>).newData

\* the work of one floodFill call: dequeues made and cells assigned
floodFillWork(data, startX, startY, newColorId) ==
  LET height == Len(data)
      width == IF height > 0 THEN Len(data[1]) ELSE 0
      res == IF startX < 0 \/ startX >= width \/ startY < 0 \/ startY >= height
               THEN [newData |-> data, dequeued |-> 0, written |-> <<>>]
             ELSE IF data[startY + 1][startX + 1] = newColorId
               THEN [newData |-> data, dequeued |-> 0, written |-> <<>>]
             ELSE floodFillRun(data, << <<startX, startY>> >>, {},
                               data[startY + 1][startX + 1], newColorId, 0, <<>>)
  IN  [dequeued |-> res.dequeued, written |-> res.written]

\* variant: a start cell that already holds the colour yields a fresh empty grid
floodFill_sameColorEmpty(data, startX, startY, newColorId) ==
  LET height == Len(data)
      width == IF height > 0 THEN Len(data[1]) ELSE 0
  IN  IF startX < 0 \/ startX >= width \/ startY < 0 \/ startY >= height
        THEN data
      ELSE IF data[startY + 1][startX + 1] = newColorId
        THEN createEmptyPixelData(width, height)
      ELSE floodFillLoop(data, << <<startX, startY>> >>, {},
                         data[startY + 1][startX + 1], newColorId)

floodFill(data, startX, startY, newColorId) ==
  LET height == Len(data)
      width == IF height > 0 THEN Len(data[1]) ELSE 0
  IN  IF startX < 0 \/ startX >= width \/ startY < 0 \/ startY >= height
        THEN data
      ELSE IF data[startY + 1][startX + 1] = newColorId
        THEN data
      ELSE floodFillLoop(data, << <<startX, startY>> >>, {},
                         data[startY + 1][startX + 1], newColorId)

(***************************************************************************)
(* store/useStore.ts: the store actions as functions of the store record   *)
(* st = [pixelData, history, historyIndex].  now is the value of           *)
(* Date.now() at the call.                                                 *)
(***************************************************************************)
Store(pd, h, i) == [pixelData |-> pd, history |-> h, historyIndex |-> i]

InitialStore ==
  Store(createEmptyPixelData(GridWidth, GridHeight), <<>>, -1)

\* variant: the snapshot pushed is the new grid instead of the current one
setPixelData_pushNew(st, data, saveHistory, now) ==
  IF saveHistory
    THEN LET pushed == Append(SubSeq(st.history, 1, st.historyIndex + 1),
                              [pixelData |-> data, timestamp |-> now])
             newHistory == IF Len(pushed) > MAX_HISTORY THEN Tail(pushed) ELSE pushed
         IN  Store(data, newHistory, Len(newHistory) - 1)
    ELSE [st EXCEPT !.pixelData = data]

\* variant: the entries beyond the cursor are kept
setPixelData_noTruncate(st, data, saveHistory, now) ==
  IF saveHistory
    THEN LET pushed == Append(st.history,
                              [pixelData |-> st.pixelData, timestamp |-> now])
             newHistory == IF Len(pushed) > MAX_HISTORY THEN Tail(pushed) ELSE pushed
         IN  Store(data, newHistory, Len(newHistory) - 1)
    ELSE [st EXCEPT !.pixelData = data]

\* variant: the limit is tested one entry too late
setPixelData_lateEvict(st, data, saveHistory, now) ==
  IF saveHistory
    THEN LET pushed == Append(SubSeq(st.history, 1, st.historyIndex + 1),
                              [pixelData |-> st.pixelData, timestamp |-> now])
             newHistory == IF Len(pushed) > MAX_HISTORY + 1 THEN Tail(pushed) ELSE pushed
         IN  Store(data, newHistory, Len(newHistory) - 1)
    ELSE [st EXCEPT !.pixelData = data]

\* variant: a snapshot is pushed whatever saveHistory is
setPixelData_alwaysSave(st, data, saveHistory, now) ==
  LET pushed == Append(SubSeq(st.history, 1, st.historyIndex + 1),
                       [pixelData |-> st.pixelData, timestamp |-> now])
      newHistory == IF Len(pushed) > MAX_HISTORY THEN Tail(pushed) ELSE pushed
  IN  Store(data, newHistory, Len(newHistory) - 1)

setPixelData(st, data, saveHistory, now) ==
  IF saveHistory
    THEN LET pushed == Append(SubSeq(st.history, 1, st.historyIndex + 1),
                              [pixelData |-> st.pixelData, timestamp |-> now])
             newHistory == IF Len(pushed) > MAX_HISTORY THEN Tail(pushed) ELSE pushed
         IN  Store(data, newHistory, Len(newHistory) - 1)
    ELSE [st EXCEPT !.pixelData = data]

\* variant: no test for a cell that already holds colorId
setPixel_noSameCheck(st, x, y, colorId, now) ==
  LET pd == st.pixelData IN
  IF y < 0 \/ y >= Len(pd) THEN st
  ELSE IF x < 0 \/ x >= Len(pd[1]) THEN st
  ELSE setPixelData(st,
         [rowIndex \in 1..Len(pd) |->
            IF rowIndex = y + 1 THEN [pd[rowIndex] EXCEPT ![x + 1] = colorId]
            ELSE pd[rowIndex]],
         TRUE, now)

\* variant: the whole row y is painted
setPixel_wholeRow(st, x, y, colorId, now) ==
  LET pd == st.pixelData IN
  IF y < 0 \/ y >= Len(pd) THEN st
  ELSE IF x < 0 \/ x >= Len(pd[1]) THEN st
  ELSE IF pd[y + 1][x + 1] = colorId THEN st
  ELSE setPixelData(st,
         [rowIndex \in 1..Len(pd) |->
            IF rowIndex = y + 1 THEN [c \in DOMAIN pd[rowIndex] |-> colorId]
            ELSE pd[rowIndex]],
         TRUE, now)

setPixel(st, x, y, colorId, now) ==
  LET pd == st.pixelData IN
  IF y < 0 \/ y >= Len(pd) THEN st
  ELSE IF x < 0 \/ x >= Len(pd[1]) THEN st
  ELSE IF pd[y + 1][x + 1] = colorId THEN st
  ELSE setPixelData(st,
         [rowIndex \in 1..Len(pd) |->
            IF rowIndex = y + 1 THEN [pd[rowIndex] EXCEPT ![x + 1] = colorId]
            ELSE pd[rowIndex]],
         TRUE, now)

fillArea(st, x, y, colorId, now) ==
  setPixelData(st, floodFill(st.pixelData, x, y, colorId), TRUE, now)

undo(st) ==
  IF st.historyIndex >= 0
    THEN [st EXCEPT !.pixelData = st.history[st.historyIndex + 1].pixelData,
                    !.historyIndex = st.historyIndex - 1]
    ELSE st

\* variant: redo is allowed with the cursor on the last entry
redo_pastEnd(st) ==
  IF st.historyIndex <= Len(st.history) - 1
    THEN LET nextIndex == st.historyIndex + 1 IN
         IF nextIndex + 1 < Len(st.history)
           THEN [st EXCEPT !.historyIndex = nextIndex,
                           !.pixelData = st.history[nextIndex + 2].pixelData]
           ELSE [st EXCEPT !.historyIndex = nextIndex]
    ELSE st

redo(st) ==
  IF st.historyIndex < Len(st.history) - 1
    THEN LET nextIndex == st.historyIndex + 1 IN
         IF nextIndex + 1 < Len(st.history)
           THEN [st EXCEPT !.historyIndex = nextIndex,
                           !.pixelData = st.history[nextIndex + 2].pixelData]
           ELSE [st EXCEPT !.historyIndex = nextIndex]
    ELSE st

\* variant: true only above the first entry
canUndo_aboveFirst(st) == st.historyIndex > 0

canUndo(st) == st.historyIndex >= 0

canRedo(st) == st.historyIndex < Len(st.history) - 1

resetProject(st) == InitialStore

loadProject(st, data) == Store(data, <<>>, -1)

(***************************************************************************)
(* The view and configuration part of the store.                           *)
(***************************************************************************)
ZOOM_MIN == 100
ZOOM_MAX == 10000

Min(a, b) == IF a < b THEN a ELSE b

Max(a, b) == IF a > b THEN a ELSE b

initialUIState ==
  [mode |-> "editor", currentTool |-> "brush", selectedColorId |-> "P01",
   highlightColorId |-> Null, zoom |-> 1000, panX |-> 0, panY |-> 0,
   showColorCode |-> TRUE, isFullscreen |-> FALSE, showColorStats |-> TRUE]

\* { ...defaultConfig }: a PixelConfig; defaultConfig comes from
\* data/beadColors, and the values below stand for its fields
initialConfig ==
  [width |-> GridWidth, height |-> GridHeight, colorCount |-> 16,
   brand |-> "perler", lockAspectRatio |-> TRUE]

InitialView ==
  [ui |-> initialUIState, config |-> initialConfig, originalImage |-> Null]

\* { ...state.config, ...config } for a partial config
setConfig(v, config) ==
  [v EXCEPT !.config = [k \in DOMAIN v.config |->
                          IF k \in DOMAIN config THEN config[k] ELSE v.config[k]]]

setOriginalImage(v, image) == [v EXCEPT !.originalImage = image]

setMode(v, mode) == [v EXCEPT !.ui.mode = mode]

setTool(v, tool) == [v EXCEPT !.ui.currentTool = tool]

setSelectedColor(v, colorId) == [v EXCEPT !.ui.selectedColorId = colorId]

setHighlightColor(v, colorId) == [v EXCEPT !.ui.highlightColorId = colorId]

\* variant: the upper limit is not applied
setZoom_noUpper(v, zoom) == [v EXCEPT !.ui.zoom = Max(ZOOM_MIN, zoom)]

setZoom(v, zoom) == [v EXCEPT !.ui.zoom = Max(ZOOM_MIN, Min(ZOOM_MAX, zoom))]

setPan(v, x, y) == [v EXCEPT !.ui.panX = x, !.ui.panY = y]

setShowColorCode(v, show) == [v EXCEPT !.ui.showColorCode = show]

setFullscreen(v, fullscreen) == [v EXCEPT !.ui.isFullscreen = fullscreen]

setShowColorStats(v, show) == [v EXCEPT !.ui.showColorStats = show]

\* resetProject and loadProject on the view part
resetView(v) == InitialView

loadView(v, config) == [v EXCEPT !.config = config]

(***************************************************************************)
(* Inputs.  Images are the grids pixelateImage can hand to the App (the    *)
(* configured size or another one); ProjectFiles are the grids of          *)
(* importable project files.                                               *)
(***************************************************************************)
Images ==
  { [y \in 1..GridHeight |-> [x \in 1..GridWidth |-> "P02"]],
    << <<"P01">> >> }

ProjectFiles ==
  { [y \in 1..GridHeight |-> [x \in 1..GridWidth |-> IF x = 1 THEN "P01" ELSE "P02"]] }

\* the config stored in a project file with the grid `data`
ProjectConfig(data) ==
  [initialConfig EXCEPT !.width = Len(data[1]), !.height = Len(data), !.colorCount = 8]

\* processImage / reprocessImage resolve to a grid (ok) or, on failure, to null
Results ==
  {[ok |-> TRUE, data |-> g] : g \in Images} \cup {[ok |-> FALSE, data |-> <<>>]}

(***************************************************************************)
(* Bookkeeping of the exploration (not program state).                     *)
(*   last : the operation that produced the current state and the store    *)
(*          it was applied to (history by its length);                     *)
(*   run  : the current run of consecutive history-saving edits (the grid  *)
(*          before each, oldest first), the number of undos that followed  *)
(*          it, the grid just before the first of those undos, and whether *)
(*          a redo followed exactly one undo;                              *)
(*   trip : the last in-range setPixel call (cell, the value v0 the cell   *)
(*          held and the grid before it), and whether the call after it    *)
(*          was setPixel of v0 on the same cell.                           *)
(***************************************************************************)
Cur == Store(pixelData, history, historyIndex)

Pre(op) ==
  [op |-> op, pixelData |-> pixelData, historyIndex |-> historyIndex,
   len |-> Len(history)]

NoGrid == <<>>

RunIdle == [bases |-> <<>>, undos |-> 0, preUndo |-> NoGrid, redone |-> FALSE]

LastEntries(s) ==
  IF Len(s) > MAX_HISTORY THEN SubSeq(s, Len(s) - MAX_HISTORY + 1, Len(s)) ELSE s

RunEdit ==
  [bases |-> LastEntries(IF run.undos > 0 THEN <<pixelData>>
                         ELSE Append(run.bases, pixelData)),
   undos |-> 0, preUndo |-> NoGrid, redone |-> FALSE]

RunUndo ==
  IF run.undos < Len(run.bases)
    THEN [bases |-> run.bases, undos |-> run.undos + 1,
          preUndo |-> IF run.undos = 0 THEN pixelData ELSE NoGrid,
          redone |-> FALSE]
    ELSE RunIdle

RunRedo ==
  IF run.undos = 1
    THEN [bases |-> <<>>, undos |-> 0, preUndo |-> run.preUndo, redone |-> TRUE]
    ELSE RunIdle

NoCall == [f |-> "none"]

NoTrip == [x |-> -1, y |-> -1, v0 |-> Null, grid |-> NoGrid, done |-> FALSE]

InGrid(pd, x, y) ==
  /\ y >= 0 /\ y < Len(pd)
  /\ x >= 0 /\ x < Len(pd[1])

Commit(st) ==
  /\ pixelData' = st.pixelData
  /\ history' = st.history
  /\ historyIndex' = st.historyIndex

(***************************************************************************)
(* Initial state: the store as constructed.  A behaviour first replays a   *)
(* session of `session` brush strokes on cell (0,0) (each a setPixel       *)
(* call), then performs up to MaxOps arbitrary operations.  nOps counts    *)
(* the operations performed and serves as the clock read by Date.now().    *)
(***************************************************************************)
Sessions == {0, MAX_HISTORY}

Init ==
  /\ pixelData = InitialStore.pixelData
  /\ history = InitialStore.history
  /\ historyIndex = InitialStore.historyIndex
  /\ hasLoadedImage = FALSE
  /\ session \in Sessions
  /\ nOps = 0
  /\ last = [op |-> "init", pixelData |-> NoGrid, historyIndex |-> -1, len |-> 0]
  /\ run = RunIdle
  /\ trip = NoTrip
  /\ call = NoCall
  /\ view = InitialView

(***************************************************************************)
(* Operations.                                                             *)
(***************************************************************************)
Step(op) ==
  /\ nOps' = nOps + 1
  /\ last' = Pre(op)
  /\ UNCHANGED <<session, call>>

\* the session has been replayed and operations remain
Free ==
  /\ nOps >= session
  /\ nOps < session + MaxOps

Other(op) ==
  /\ Free
  /\ Step(op)
  /\ trip' = NoTrip

SetPixelData(data, saveHistory) ==
  /\ Other("setPixelData")
  /\ Commit(setPixelData(Cur, data, saveHistory, nOps))
  /\ run' = IF saveHistory THEN RunEdit ELSE RunIdle
  /\ UNCHANGED <<hasLoadedImage, view>>

SetPixelCall(x, y, colorId) ==
  /\ Step("setPixel")
  /\ Commit(setPixel(Cur, x, y, colorId, nOps))
  /\ run' = IF InGrid(pixelData, x, y) /\ pixelData[y + 1][x + 1] # colorId
              THEN RunEdit ELSE run
  /\ trip' = IF ~InGrid(pixelData, x, y) THEN NoTrip
             ELSE IF ~trip.done /\ trip.x = x /\ trip.y = y /\ trip.v0 = colorId
               THEN [trip EXCEPT !.done = TRUE]
             ELSE [x |-> x, y |-> y, v0 |-> pixelData[y + 1][x + 1],
                   grid |-> pixelData, done |-> FALSE]
  /\ UNCHANGED <<hasLoadedImage, view>>

SetPixel(x, y, colorId) ==
  /\ Free
  /\ SetPixelCall(x, y, colorId)

\* one brush stroke of the replayed session: cell (0,0) toggles
Stroke ==
  /\ nOps < session
  /\ SetPixelCall(0, 0, IF pixelData[1][1] = "P01" THEN Null ELSE "P01")

FillArea(x, y, colorId) ==
  /\ Other("fillArea")
  /\ Commit(fillArea(Cur, x, y, colorId, nOps))
  /\ run' = RunEdit
  /\ UNCHANGED <<hasLoadedImage, view>>

Undo ==
  /\ Other("undo")
  /\ Commit(undo(Cur))
  /\ run' = RunUndo
  /\ UNCHANGED <<hasLoadedImage, view>>

Redo ==
  /\ Other("redo")
  /\ Commit(redo(Cur))
  /\ run' = RunRedo
  /\ UNCHANGED <<hasLoadedImage, view>>

ResetProject ==
  /\ Other("resetProject")
  /\ Commit(resetProject(Cur))
  /\ view' = resetView(view)
  /\ run' = RunIdle
  /\ UNCHANGED hasLoadedImage

LoadProject(data) ==
  /\ Other("loadProject")
  /\ Commit(loadProject(Cur, data))
  /\ view' = loadView(view, ProjectConfig(data))
  /\ run' = RunIdle
  /\ UNCHANGED hasLoadedImage

\* App.handleFileSelect: processImage, then setPixelData(result, false).
\* loaded: loadImageFromFile succeeded (processImage sets hasLoadedImage).
HandleFileSelect(loaded, result) ==
  /\ Other(IF result.ok THEN "handleFileSelect" ELSE "handleFileSelectFailed")
  /\ result.ok => loaded
  /\ hasLoadedImage' = (hasLoadedImage \/ loaded)
  /\ IF result.ok
       THEN Commit(setPixelData(Cur, result.data, FALSE, nOps))
       ELSE UNCHANGED <<pixelData, history, historyIndex>>
  /\ run' = IF result.ok THEN RunIdle ELSE run
  /\ UNCHANGED view

\* App.handleApplyConfig: reprocessImage, then setPixelData(result, false).
HandleApplyConfig(result) ==
  /\ hasLoadedImage
  /\ Other(IF result.ok THEN "handleApplyConfig" ELSE "handleApplyConfigFailed")
  /\ IF result.ok
       THEN Commit(setPixelData(Cur, result.data, FALSE, nOps))
       ELSE UNCHANGED <<pixelData, history, historyIndex>>
  /\ run' = IF result.ok THEN RunIdle ELSE run
  /\ UNCHANGED <<hasLoadedImage, view>>

Next ==
  \/ Stroke
  \/ \E data \in Images, saveHistory \in BOOLEAN : SetPixelData(data, saveHistory)
  \/ \E x \in XArgs, y \in YArgs, colorId \in CellValues : SetPixel(x, y, colorId)
  \/ \E x \in XArgs, y \in YArgs, colorId \in Colors : FillArea(x, y, colorId)
  \/ Undo
  \/ Redo
  \/ ResetProject
  \/ \E data \in ProjectFiles : LoadProject(data)
  \/ \E loaded \in BOOLEAN, result \in Results :
       HandleFileSelect(loaded, result)
  \/ \E result \in Results : HandleApplyConfig(result)

Spec == Init /\ [][Next]_vars

TypeOK ==
  /\ historyIndex \in -1 .. MAX_HISTORY
  /\ nOps \in 0 .. session + MaxOps

(***************************************************************************)
(* Properties of the undo / redo history.                                  *)
(***************************************************************************)
\* a transition that is a history-saving edit
SavingEdit ==
  \/ /\ last'.op = "setPixelData"
     /\ \E data \in Images : SetPixelData(data, TRUE)
  \/ /\ last'.op = "setPixel"
     /\ \E x \in XArgs, y \in YArgs, colorId \in CellValues :
          /\ InGrid(pixelData, x, y)
          /\ pixelData[y + 1][x + 1] # colorId
          /\ SetPixelCall(x, y, colorId)
  \/ /\ last'.op = "fillArea"
     /\ \E x \in XArgs, y \in YArgs, colorId \in Colors : FillArea(x, y, colorId)

\* C1: after one or more history-saving edits and exactly one undo, redo
\* makes pixelData equal to the grid it was immediately before the undo.
C1_RedoRestoresLastEdit ==
  run.redone => pixelData = run.preUndo

\* C2: after N history-saving edits (1 <= N <= MAX_HISTORY) followed by N
\* undos, pixelData is the grid that was current before the first of those
\* N edits (stated for every N: after k undos the grid is the one before
\* the k-th last edit of the run).
C2_UndoNReturnsToStart ==
  run.undos >= 1 => pixelData = run.bases[Len(run.bases) - run.undos + 1]

\* two undos after a run of edits the last of which evicted the oldest entry
C2_Witness ==
  /\ last.op = "undo"
  /\ run.undos = 2
  /\ Len(run.bases) = MAX_HISTORY
  /\ Len(history) = MAX_HISTORY
  /\ history[1].timestamp > 0
  /\ pixelData # last.pixelData

\* C3: a history-saving edit made while historyIndex < history.length-1
\* keeps the entries 0..historyIndex, appends one entry (the grid before the
\* edit) and leaves the cursor on it, so canRedo() is false.
C3_EditAfterUndoTruncates ==
  [][(historyIndex < Len(history) - 1 /\ SavingEdit) =>
       /\ Len(history') = historyIndex + 2
       /\ \A i \in 1 .. historyIndex + 1 : history'[i] = history[i]
       /\ history'[Len(history')].pixelData = pixelData
       /\ historyIndex' = Len(history') - 1
       /\ ~canRedo(Store(pixelData', history', historyIndex'))]_vars

C3_Witness ==
  /\ last.op \in {"setPixel", "fillArea", "setPixelData"}
  /\ last.historyIndex < last.len - 2
  /\ Len(history) = last.historyIndex + 2
  /\ history[Len(history)].pixelData = last.pixelData

\* C4: history never holds more than MAX_HISTORY entries; an edit that would
\* make it MAX_HISTORY + 1 evicts exactly the oldest entry and the others
\* keep their order.
C4_HistoryBounded ==
  /\ [](Len(history) <= MAX_HISTORY)
  /\ [][(historyIndex + 2 > MAX_HISTORY /\ SavingEdit) =>
          /\ Len(history') = MAX_HISTORY
          /\ \A i \in 1 .. MAX_HISTORY - 1 : history'[i] = history[i + 1]
          /\ history'[MAX_HISTORY].pixelData = pixelData]_vars

C4_Witness ==
  /\ last.op \in {"setPixel", "fillArea", "setPixelData"}
  /\ last.historyIndex = MAX_HISTORY - 1
  /\ last.len = MAX_HISTORY
  /\ Len(history) = MAX_HISTORY
  /\ history[MAX_HISTORY].pixelData = last.pixelData

\* C5: the cursor always satisfies -1 <= historyIndex <= history.length - 1.
C5_CursorInRange ==
  /\ -1 <= historyIndex
  /\ historyIndex <= Len(history) - 1

C5_Witness ==
  /\ last.op = "redo"
  /\ last.historyIndex = last.len - 2
  /\ historyIndex = Len(history) - 1

\* C6: whenever redo is available it puts the grid of entry historyIndex+1
\* (index before the call) into pixelData and advances historyIndex by 1.
C6_RedoRestoresNextEntry ==
  [][(canRedo(Cur) /\ Redo) =>
       /\ pixelData' = history[historyIndex + 2].pixelData
       /\ historyIndex' = historyIndex + 1]_vars

\* C7: right after a pixelized image is committed to the store or a project
\* is loaded, history is empty and historyIndex = -1.
C7_HistoryResetOnNewImage ==
  last.op \in {"handleFileSelect", "handleApplyConfig", "loadProject"} =>
    /\ history = <<>>
    /\ historyIndex = -1

(***************************************************************************)
(* Properties of the cell and fill edits.                                  *)
(***************************************************************************)
\* C8: fillArea(x, y, colorId) with (x,y) outside the grid or on a cell that
\* already holds colorId leaves pixelData, history and historyIndex unchanged.
C8_FillAreaNoOp ==
  [][last'.op = "fillArea" =>
       \A x \in XArgs, y \in YArgs, colorId \in Colors :
         (/\ ~InGrid(pixelData, x, y) \/ pixelData[y + 1][x + 1] = colorId
          /\ FillArea(x, y, colorId))
         => UNCHANGED <<pixelData, history, historyIndex>>]_vars

\* C9: setPixel(x, y, colorId) leaves pixelData, history and historyIndex
\* unchanged when (x,y) is out of range or the cell already holds colorId;
\* otherwise the new grid differs from the old one in exactly cell (x,y),
\* which holds colorId, and one history entry (the old grid) is recorded.
\* (After a setPixel call trip' holds the cell of the call, or x = -1 when
\* the call was out of range.)
C9_SetPixelEffect ==
  [][last'.op = "setPixel" =>
       IF trip'.x = -1
         THEN UNCHANGED <<pixelData, history, historyIndex>>
         ELSE \A colorId \in CellValues :
                SetPixelCall(trip'.x, trip'.y, colorId) =>
                  IF pixelData[trip'.y + 1][trip'.x + 1] = colorId
                    THEN UNCHANGED <<pixelData, history, historyIndex>>
                    ELSE /\ DOMAIN pixelData' = DOMAIN pixelData
                         /\ \A r \in DOMAIN pixelData :
                              /\ DOMAIN pixelData'[r] = DOMAIN pixelData[r]
                              /\ \A c \in DOMAIN pixelData[r] :
                                   pixelData'[r][c] =
                                     IF r = trip'.y + 1 /\ c = trip'.x + 1 THEN colorId
                                     ELSE pixelData[r][c]
                         /\ Len(history') =
                              (IF historyIndex + 2 > MAX_HISTORY THEN MAX_HISTORY
                               ELSE historyIndex + 2)
                         /\ history'[Len(history')].pixelData = pixelData
                         /\ historyIndex' = Len(history') - 1]_vars

C9_Witness ==
  /\ last.op = "setPixel"
  /\ last.historyIndex >= 0
  /\ pixelData # last.pixelData
  /\ Len(history) = last.historyIndex + 2

\* C10: setPixel(x, y, c) followed by setPixel(x, y, v0), v0 being the value
\* cell (x,y) held before the first call, gives back the original grid.
C10_SetPixelRoundTrip ==
  trip.done => pixelData = trip.grid

C10_Witness ==
  /\ trip.done
  /\ last.op = "setPixel"
  /\ last.pixelData # trip.grid
  /\ Len(history) >= 2

\* C28: undo at historyIndex = -1 and redo at historyIndex = history.length - 1
\* leave pixelData, history and historyIndex as they are; canUndo holds
\* exactly when historyIndex >= 0 and canRedo exactly when historyIndex <
\* history.length - 1, which is exactly when undo, resp. redo, moves the
\* cursor.
C28_NoOpAtEnds ==
  [][/\ (last'.op = "undo" /\ historyIndex = -1)
          => UNCHANGED <<pixelData, history, historyIndex>>
     /\ (last'.op = "redo" /\ historyIndex = Len(history) - 1)
          => UNCHANGED <<pixelData, history, historyIndex>>
     /\ canUndo(Cur) <=> (historyIndex >= 0)
     /\ canRedo(Cur) <=> (historyIndex < Len(history) - 1)
     /\ canUndo(Cur) <=> (undo(Cur).historyIndex # historyIndex)
     /\ canRedo(Cur) <=> (redo(Cur).historyIndex # historyIndex)]_vars

\* undo was called with the cursor at -1 on a history that has an entry
C28_Witness ==
  /\ last.op = "undo"
  /\ last.historyIndex = -1
  /\ historyIndex = -1
  /\ Len(history) = 1
  /\ nOps > session

(***************************************************************************)
(* floodFill on its own: every grid of FillWidth x FillHeight cells, every *)
(* start one step around it and every colour; the function is applied      *)
(* once, then once more to its own result.                                 *)
(***************************************************************************)
FillWidth == 2
FillHeight == 2

FillGrids == [1..FillHeight -> [1..FillWidth -> CellValues]]

\* the store does not take part in the exploration of a pure function
IdleStore ==
  /\ pixelData = InitialStore.pixelData
  /\ history = InitialStore.history
  /\ historyIndex = InitialStore.historyIndex
  /\ hasLoadedImage = FALSE
  /\ session = 0
  /\ nOps = 0
  /\ last = [op |-> "init", pixelData |-> NoGrid, historyIndex |-> -1, len |-> 0]
  /\ run = RunIdle
  /\ trip = NoTrip
  /\ view = InitialView

storeVars ==
  <<pixelData, history, historyIndex, hasLoadedImage, session, nOps, last, run, trip,
    view>>

InitFill ==
  /\ IdleStore
  /\ \E g \in FillGrids, x \in -1 .. FillWidth, y \in -1 .. FillHeight, c \in Colors :
       call = [f |-> "floodFill", applied |-> 0, data |-> g, x |-> x, y |-> y,
               colorId |-> c, out |-> NoGrid, out2 |-> NoGrid,
               work |-> [dequeued |-> 0, written |-> <<>>]]

FillOnce ==
  /\ call.f = "floodFill"
  /\ call.applied = 0
  /\ call' = [call EXCEPT !.applied = 1,
                          !.out = floodFill(call.data, call.x, call.y, call.colorId),
                          !.work = floodFillWork(call.data, call.x, call.y, call.colorId)]
  /\ UNCHANGED storeVars

FillTwice ==
  /\ call.f = "floodFill"
  /\ call.applied = 1
  /\ call' = [call EXCEPT !.applied = 2,
                          !.out2 = floodFill(call.out, call.x, call.y, call.colorId)]
  /\ UNCHANGED storeVars

NextFill == FillOnce \/ FillTwice

SpecFill == InitFill /\ [][NextFill]_vars

\* the cells connected to (x,y) by 4-neighbour steps over cells of value t
RECURSIVE Grow(_, _, _)
Grow(g, t, S) ==
  LET more == {q \in (0 .. Len(g[1]) - 1) \X (0 .. Len(g) - 1) :
                 /\ g[q[2] + 1][q[1] + 1] = t
                 /\ \E p \in S :
                      \/ p[1] = q[1] /\ (p[2] = q[2] + 1 \/ p[2] = q[2] - 1)
                      \/ p[2] = q[2] /\ (p[1] = q[1] + 1 \/ p[1] = q[1] - 1)}
  IN  IF more \subseteq S THEN S ELSE Grow(g, t, S \cup more)

Region(g, x, y) == Grow(g, g[y + 1][x + 1], {<<x, y>>})

\* C11: for an in-range start whose value t differs from the new colour, the
\* result differs from the input exactly on the cells 4-connected to the
\* start over cells of value t: those hold the new colour, all others keep
\* their value.
C11_FloodFillRegion ==
  (/\ call.f = "floodFill"
   /\ call.applied >= 1
   /\ InGrid(call.data, call.x, call.y)
   /\ call.data[call.y + 1][call.x + 1] # call.colorId)
  => LET region == Region(call.data, call.x, call.y)
     IN  /\ DOMAIN call.out = DOMAIN call.data
         /\ \A r \in DOMAIN call.data :
              /\ DOMAIN call.out[r] = DOMAIN call.data[r]
              /\ \A c \in DOMAIN call.data[r] :
                   call.out[r][c] =
                     IF <<c - 1, r - 1>> \in region
                       THEN call.colorId
                       ELSE call.data[r][c]

\* filling (0,0) with P02 on [[P01,P01],[P02,P02]] gives [[P02,P02],[P02,P02]]
C11_Witness ==
  /\ call.f = "floodFill"
  /\ call.applied = 1
  /\ call.data = << <<"P01", "P01">>, <<"P02", "P02">> >>
  /\ call.x = 0 /\ call.y = 0 /\ call.colorId = "P02"
  /\ call.out = << <<"P02", "P02">>, <<"P02", "P02">> >>

\* C12: filling the result of a fill again, with the same start and colour,
\* changes nothing, and filling a start cell that already holds the colour
\* returns a grid equal to the input.
C12_FloodFillIdempotent ==
  /\ (call.f = "floodFill" /\ call.applied = 2) => call.out2 = call.out
  /\ (/\ call.f = "floodFill"
      /\ call.applied >= 1
      /\ InGrid(call.data, call.x, call.y)
      /\ call.data[call.y + 1][call.x + 1] = call.colorId)
     => call.out = call.data

C12_Witness ==
  /\ call.f = "floodFill"
  /\ call.applied = 2
  /\ call.out # call.data
  /\ call.out2 = call.out

\* the cells on which two grids of the same shape differ
ChangedCells(g1, g2) ==
  {q \in (0 .. Len(g1[1]) - 1) \X (0 .. Len(g1) - 1) :
     g1[q[2] + 1][q[1] + 1] # g2[q[2] + 1][q[1] + 1]}

\* C24: a fill ends; no cell is assigned twice, the cells assigned are the
\* recoloured ones, and the dequeues made are at most 1 + 4 * (number of
\* recoloured cells).
C24_FloodFillWork ==
  (call.f = "floodFill" /\ call.applied >= 1)
  => LET written == call.work.written
     IN  /\ \A i, j \in 1 .. Len(written) : written[i] = written[j] => i = j
         /\ {written[i] : i \in 1 .. Len(written)} = ChangedCells(call.data, call.out)
         /\ \A i \in 1 .. Len(written) :
              call.data[written[i][2] + 1][written[i][1] + 1] = call.data[call.y + 1][call.x + 1]
         /\ call.work.dequeued <= 1 + 4 * Len(written)
         /\ Len(written) = 0 => call.work.dequeued = 0

\* a whole 2x2 region is recoloured: 4 cells, 17 dequeues
C24_Witness ==
  /\ call.f = "floodFill"
  /\ call.applied = 1
  /\ Len(call.work.written) = 4
  /\ call.work.dequeued = 17

(***************************************************************************)
(* Image processing (imageProcessor.ts, colorUtils.ts).                    *)
(*                                                                         *)
(* An RGB colour is a record [r, g, b] of 0..255; a sampled pixel adds the *)
(* alpha channel a.  ImageData is [width, height, data] with data the      *)
(* row-major sequence of pixels (data[i] is bytes 4(i-1) .. 4(i-1)+3 of    *)
(* the source's byte array).                                               *)
(*                                                                         *)
(* Lab components are fixed-point integers in units of 0.01; the sRGB      *)
(* linearisation ((c+0.055)/1.055)^2.4 is tabulated per channel value in   *)
(* units of 0.0001.  deltaE is kept squared: Math.sqrt is strictly         *)
(* increasing, so every comparison of distances is unchanged.              *)
(***************************************************************************)
ALPHA_THRESHOLD == 128

RGBOf(p) == [r |-> p.r, g |-> p.g, b |-> p.b]

\* round(10000 * linear(v / 255)) for v = 0 .. 255 (entry v + 1)
LinearTable ==
  <<
     0, 3, 6, 9, 12, 15, 18, 21, 24, 27, 30, 33,
     37, 40, 44, 48, 52, 56, 60, 65, 70, 75, 80, 86,
     91, 97, 103, 110, 116, 123, 130, 137, 144, 152, 160, 168,
     176, 185, 194, 203, 212, 222, 232, 242, 252, 262, 273, 284,
     296, 307, 319, 331, 343, 356, 369, 382, 395, 409, 423, 437,
     452, 467, 482, 497, 513, 529, 545, 561, 578, 595, 612, 630,
     648, 666, 685, 704, 723, 742, 762, 782, 802, 823, 844, 865,
     887, 908, 931, 953, 976, 999, 1022, 1046, 1070, 1095, 1119, 1144,
     1170, 1195, 1221, 1248, 1274, 1301, 1329, 1356, 1384, 1413, 1441, 1470,
     1500, 1529, 1559, 1590, 1620, 1651, 1683, 1714, 1746, 1779, 1812, 1845,
     1878, 1912, 1946, 1981, 2016, 2051, 2086, 2122, 2159, 2195, 2232, 2270,
     2307, 2346, 2384, 2423, 2462, 2502, 2542, 2582, 2623, 2664, 2705, 2747,
     2789, 2831, 2874, 2918, 2961, 3005, 3050, 3095, 3140, 3185, 3231, 3278,
     3325, 3372, 3419, 3467, 3515, 3564, 3613, 3663, 3712, 3763, 3813, 3864,
     3916, 3968, 4020, 4072, 4125, 4179, 4233, 4287, 4342, 4397, 4452, 4508,
     4564, 4621, 4678, 4735, 4793, 4851, 4910, 4969, 5029, 5089, 5149, 5210,
     5271, 5333, 5395, 5457, 5520, 5583, 5647, 5711, 5776, 5841, 5906, 5972,
     6038, 6105, 6172, 6240, 6308, 6376, 6445, 6514, 6584, 6654, 6724, 6795,
     6867, 6939, 7011, 7084, 7157, 7231, 7305, 7379, 7454, 7529, 7605, 7682,
     7758, 7835, 7913, 7991, 8070, 8148, 8228, 8308, 8388, 8469, 8550, 8632,
     8714, 8796, 8879, 8963, 9047, 9131, 9216, 9301, 9387, 9473, 9560, 9647,
     9734, 9823, 9911, 10000
  >>

linearize(v) == LinearTable[v + 1]

\* floor of the cube root of t, t >= 0
RECURSIVE cbrtSearch(_, _, _)
cbrtSearch(t, lo, hi) ==
  IF lo >= hi THEN lo
  ELSE LET mid == (lo + hi + 1) \div 2
       IN  IF mid * mid * mid <= t THEN cbrtSearch(t, mid, hi)
                                   ELSE cbrtSearch(t, lo, mid - 1)

\* f(t) of the XYZ -> Lab step; t in units of 0.00001, result in units of 0.001
labF(t) ==
  IF t > 885 THEN cbrtSearch(t * 10000, 0, 1024)
             ELSE (7787 * t + 13793103) \div 100000

rgbToLab(rgb) ==
  LET r == linearize(rgb.r)
      g == linearize(rgb.g)
      b == linearize(rgb.b)
      x == ((r * 4125 + g * 3576 + b * 1804) * 2) \div 1901
      y == (r * 2127 + g * 7152 + b * 722) \div 1000
      z == ((r * 193 + g * 1192 + b * 9503) * 6) \div 6533
      fx == labF(x)
      fy == labF(y)
      fz == labF(z)
  IN  [l |-> (116 * fy - 16000) \div 10,
       a |-> 50 * (fx - fy),
       b |-> 20 * (fy - fz)]

deltaE(lab1, lab2) ==
  LET dL == lab1.l - lab2.l
      da == lab1.a - lab2.a
      db == lab1.b - lab2.b
  IN  dL * dL + da * da + db * db

Infinity == 2147483647

\* a bead colour is [id, rgb, lab]; lab is NoLab until it has been computed
NoLab == [l |-> Infinity, a |-> 0, b |-> 0]

NoBead == [id |-> Null, rgb |-> [r |-> 0, g |-> 0, b |-> 0], lab |-> NoLab]

labOf(color) == IF color.lab # NoLab THEN color.lab ELSE rgbToLab(color.rgb)

\* variant: a later entry at the same distance replaces the earlier one
RECURSIVE findClosestLoop_lastWins(_, _, _, _, _)
findClosestLoop_lastWins(targetLab, colors, i, closestColor, minDistance) ==
  IF i > Len(colors) THEN closestColor
  ELSE LET distance == deltaE(targetLab, labOf(colors[i]))
       IN  IF distance <= minDistance
             THEN findClosestLoop_lastWins(targetLab, colors, i + 1, colors[i], distance)
             ELSE findClosestLoop_lastWins(targetLab, colors, i + 1, closestColor, minDistance)

RECURSIVE findClosestLoop(_, _, _, _, _)
findClosestLoop(targetLab, colors, i, closestColor, minDistance) ==
  IF i > Len(colors) THEN closestColor
  ELSE LET distance == deltaE(targetLab, labOf(colors[i]))
       IN  IF distance < minDistance
             THEN findClosestLoop(targetLab, colors, i + 1, colors[i], distance)
             ELSE findClosestLoop(targetLab, colors, i + 1, closestColor, minDistance)

\* NoBead stands for the null result
findClosestBeadColor(rgb, colors) ==
  IF Len(colors) = 0 THEN NoBead
  ELSE findClosestLoop(rgbToLab(rgb), colors, 1, colors[1], Infinity)

precomputeLabValues(colors) ==
  [i \in 1 .. Len(colors) |-> [colors[i] EXCEPT !.lab = labOf(colors[i])]]

SetMin(S) == CHOOSE m \in S : \A n \in S : m <= n

SetMax(S) == CHOOSE m \in S : \A n \in S : m >= n

createColorBox(colors) ==
  [colors |-> colors,
   rMin |-> SetMin({255} \cup {colors[i].r : i \in 1 .. Len(colors)}),
   rMax |-> SetMax({0} \cup {colors[i].r : i \in 1 .. Len(colors)}),
   gMin |-> SetMin({255} \cup {colors[i].g : i \in 1 .. Len(colors)}),
   gMax |-> SetMax({0} \cup {colors[i].g : i \in 1 .. Len(colors)}),
   bMin |-> SetMin({255} \cup {colors[i].b : i \in 1 .. Len(colors)}),
   bMax |-> SetMax({0} \cup {colors[i].b : i \in 1 .. Len(colors)})]

\* Array.prototype.sort with (a, b) => a[channel] - b[channel]: stable, ascending
RECURSIVE sortInsert(_, _, _)
sortInsert(sorted, color, channel) ==
  IF sorted = <<>> THEN <<color>>
  ELSE IF color[channel] < Head(sorted)[channel] THEN <<color>> \o sorted
  ELSE <<Head(sorted)>> \o sortInsert(Tail(sorted), color, channel)

RECURSIVE sortByChannel(_, _, _)
sortByChannel(sorted, colors, channel) ==
  IF colors = <<>> THEN sorted
  ELSE sortByChannel(sortInsert(sorted, Head(colors), channel), Tail(colors), channel)

splitColorBox(box) ==
  LET rRange == box.rMax - box.rMin
      gRange == box.gMax - box.gMin
      bRange == box.bMax - box.bMin
      channel == IF rRange >= gRange /\ rRange >= bRange THEN "r"
                 ELSE IF gRange >= rRange /\ gRange >= bRange THEN "g"
                 ELSE "b"
      sorted == sortByChannel(<<>>, box.colors, channel)
      mid == Len(sorted) \div 2
  IN  <<createColorBox(SubSeq(sorted, 1, mid)),
        createColorBox(SubSeq(sorted, mid + 1, Len(sorted)))>>

RECURSIVE channelSum(_, _)
channelSum(colors, channel) ==
  IF colors = <<>> THEN 0 ELSE Head(colors)[channel] + channelSum(Tail(colors), channel)

\* Math.round(sum / count) for sum >= 0: halves round up
round(sum, count) == (2 * sum + count) \div (2 * count)

getAverageColor(box) ==
  LET count == Len(box.colors)
  IN  [r |-> round(channelSum(box.colors, "r"), count),
       g |-> round(channelSum(box.colors, "g"), count),
       b |-> round(channelSum(box.colors, "b"), count)]

\* variant: only pixels with alpha 0 are skipped
collectColors_keepFaint(data) ==
  LET kept == SelectSeq(data, LAMBDA p : ~(p.a < 1))
  IN  [i \in 1 .. Len(kept) |-> RGBOf(kept[i])]

\* the samples of the quantizer: the colours of the pixels that are not skipped
collectColors(data) ==
  LET kept == SelectSeq(data, LAMBDA p : ~(p.a < ALPHA_THRESHOLD))
  IN  [i \in 1 .. Len(kept) |-> RGBOf(kept[i])]

boxVolume(box) ==
  (box.rMax - box.rMin) * (box.gMax - box.gMin) * (box.bMax - box.bMin)

\* variant: every box with 2 or more colours and a volume above 0 replaces the
\* choice, whatever the volume chosen before
RECURSIVE selectBox_lastPositive(_, _, _, _)
selectBox_lastPositive(boxes, i, maxIndex, maxVolume) ==
  IF i >= Len(boxes) THEN [maxIndex |-> maxIndex, maxVolume |-> maxVolume]
  ELSE IF Len(boxes[i + 1].colors) < 2
         THEN selectBox_lastPositive(boxes, i + 1, maxIndex, maxVolume)
  ELSE IF boxVolume(boxes[i + 1]) > 0
         THEN selectBox_lastPositive(boxes, i + 1, i, boxVolume(boxes[i + 1]))
  ELSE selectBox_lastPositive(boxes, i + 1, maxIndex, maxVolume)

\* the scan for the box to split; i, maxIndex are 0-based as in the source
RECURSIVE selectBox(_, _, _, _)
selectBox(boxes, i, maxIndex, maxVolume) ==
  IF i >= Len(boxes) THEN [maxIndex |-> maxIndex, maxVolume |-> maxVolume]
  ELSE IF Len(boxes[i + 1].colors) < 2 THEN selectBox(boxes, i + 1, maxIndex, maxVolume)
  ELSE IF boxVolume(boxes[i + 1]) > maxVolume
         THEN selectBox(boxes, i + 1, i, boxVolume(boxes[i + 1]))
  ELSE selectBox(boxes, i + 1, maxIndex, maxVolume)

\* boxes.splice(maxIndex, 1, box1, box2)
splice(boxes, maxIndex, pair) ==
  SubSeq(boxes, 1, maxIndex) \o pair \o SubSeq(boxes, maxIndex + 2, Len(boxes))

\* variant: the loop runs while boxes.length <= colorCount
RECURSIVE medianCutLoop_oneMore(_, _)
medianCutLoop_oneMore(boxes, colorCount) ==
  IF ~(Len(boxes) <= colorCount) THEN boxes
  ELSE LET sel == selectBox(boxes, 0, 0, 0)
       IN  IF sel.maxVolume = 0 THEN boxes
           ELSE medianCutLoop_oneMore(
                  splice(boxes, sel.maxIndex, splitColorBox(boxes[sel.maxIndex + 1])),
                  colorCount)

\* variant: the loop stops only when the box at maxIndex has fewer than 2 colours
RECURSIVE medianCutLoop_splitFlat(_, _)
medianCutLoop_splitFlat(boxes, colorCount) ==
  IF ~(Len(boxes) < colorCount) THEN boxes
  ELSE LET sel == selectBox(boxes, 0, 0, 0)
       IN  IF Len(boxes[sel.maxIndex + 1].colors) < 2 THEN boxes
           ELSE medianCutLoop_splitFlat(
                  splice(boxes, sel.maxIndex, splitColorBox(boxes[sel.maxIndex + 1])),
                  colorCount)

\* the while loop, with the box list and the index chosen at each split
RECURSIVE medianCutRun(_, _, _)
medianCutRun(boxes, colorCount, splits) ==
  IF ~(Len(boxes) < colorCount) THEN [boxes |-> boxes, splits |-> splits]
  ELSE LET sel == selectBox(boxes, 0, 0, 0)
       IN  IF sel.maxVolume = 0 THEN [boxes |-> boxes, splits |-> splits]
           ELSE medianCutRun(
                  splice(boxes, sel.maxIndex, splitColorBox(boxes[sel.maxIndex + 1])),
                  colorCount,
                  Append(splits, [boxes |-> boxes, maxIndex |-> sel.maxIndex]))

medianCutLoop(boxes, colorCount) == medianCutRun(boxes, colorCount, <<>>).boxes

\* the splits made by one medianCutQuantize call and the boxes it ends with
medianCutWork(imageData, colorCount) ==
  LET colors == collectColors(imageData.data)
  IN  IF Len(colors) = 0 THEN [boxes |-> <<>>, splits |-> <<>>]
      ELSE medianCutRun(<<createColorBox(colors)>>, colorCount, <<>>)

\* variant: without samples the fallback colour is black
medianCutQuantize_blackFallback(imageData, colorCount) ==
  LET colors == collectColors(imageData.data)
  IN  IF Len(colors) = 0 THEN << [r |-> 0, g |-> 0, b |-> 0] >>
      ELSE LET boxes == medianCutLoop(<<createColorBox(colors)>>, colorCount)
           IN  [i \in 1 .. Len(boxes) |-> getAverageColor(boxes[i])]

medianCutQuantize(imageData, colorCount) ==
  LET colors == collectColors(imageData.data)
  IN  IF Len(colors) = 0 THEN << [r |-> 255, g |-> 255, b |-> 255] >>
      ELSE LET boxes == medianCutLoop(<<createColorBox(colors)>>, colorCount)
           IN  [i \in 1 .. Len(boxes) |-> getAverageColor(boxes[i])]

squaredDistance(rgb, color) ==
  (rgb.r - color.r) * (rgb.r - color.r)
    + (rgb.g - color.g) * (rgb.g - color.g)
    + (rgb.b - color.b) * (rgb.b - color.b)

RECURSIVE mapToNearestLoop(_, _, _, _, _)
mapToNearestLoop(rgb, palette, i, nearest, minDist) ==
  IF i > Len(palette) THEN nearest
  ELSE IF squaredDistance(rgb, palette[i]) < minDist
         THEN mapToNearestLoop(rgb, palette, i + 1, palette[i], squaredDistance(rgb, palette[i]))
  ELSE mapToNearestLoop(rgb, palette, i + 1, nearest, minDist)

mapToNearestColor(rgb, palette) ==
  mapToNearestLoop(rgb, palette, 1, palette[1], Infinity)

\* canvas.getContext('2d').getImageData(0, 0, w, h): a zero width or height
\* throws IndexSizeError; otherwise the pixels of the image as drawn on the
\* targetWidth x targetHeight canvas (image.drawn)
getImagePixelData(image, targetWidth, targetHeight) ==
  IF targetWidth = 0 \/ targetHeight = 0
    THEN [threw |-> TRUE, message |-> "IndexSizeError",
          imageData |-> [width |-> 0, height |-> 0, data |-> <<>>]]
    ELSE [threw |-> FALSE, message |-> "",
          imageData |-> [width |-> targetWidth, height |-> targetHeight,
                         data |-> image.drawn]]

NoColor == [r |-> -1, g |-> -1, b |-> -1]

\* variant: the bead colour is matched against the sampled colour itself
pixelateCell_direct(data, i, palette, colorsWithLab) ==
  IF data[i].a < ALPHA_THRESHOLD
    THEN [cell |-> Null, matched |-> FALSE, quantizedColor |-> NoColor]
    ELSE LET originalColor == RGBOf(data[i])
             quantizedColor == mapToNearestColor(originalColor, palette)
             beadColor == findClosestBeadColor(originalColor, colorsWithLab)
         IN  [cell |-> IF beadColor = NoBead \/ beadColor.id = "" THEN Null
                       ELSE beadColor.id,
              matched |-> TRUE,
              quantizedColor |-> quantizedColor]

\* one iteration of the inner loop: the cell pushed for data[i], with the
\* quantized colour it went through and whether the matcher was called
pixelateCell(data, i, palette, colorsWithLab) ==
  IF data[i].a < ALPHA_THRESHOLD
    THEN [cell |-> Null, matched |-> FALSE, quantizedColor |-> NoColor]
    ELSE LET originalColor == RGBOf(data[i])
             quantizedColor == mapToNearestColor(originalColor, palette)
             beadColor == findClosestBeadColor(quantizedColor, colorsWithLab)
         IN  [cell |-> IF beadColor = NoBead \/ beadColor.id = "" THEN Null
                       ELSE beadColor.id,
              matched |-> TRUE,
              quantizedColor |-> quantizedColor]

pixelateImage(image, width, height, colorCount, beadColors) ==
  LET got == getImagePixelData(image, width, height)
  IN  IF got.threw
        THEN [threw |-> TRUE, message |-> got.message, pixelData |-> NoGrid,
              samples |-> <<>>, palette |-> <<>>, cells |-> <<>>]
        ELSE LET imageData == got.imageData
                 palette == medianCutQuantize(imageData, colorCount)
                 colorsWithLab == precomputeLabValues(beadColors)
                 cells == [y \in 1 .. height |-> [x \in 1 .. width |->
                            pixelateCell(imageData.data, (y - 1) * width + x,
                                         palette, colorsWithLab)]]
             IN  [threw |-> FALSE, message |-> "",
                  pixelData |-> [y \in 1 .. height |-> [x \in 1 .. width |->
                                   cells[y][x].cell]],
                  samples |-> collectColors(imageData.data),
                  palette |-> palette,
                  cells |-> cells]

\* the hook around pixelateImage: the grid, or null with the error message set
processImage(image, width, height, colorCount, colors) ==
  LET res == pixelateImage(image, width, height, colorCount, colors)
  IN  IF res.threw
        THEN [returned |-> "null", result |-> NoGrid, error |-> res.message,
              hasLoadedImage |-> TRUE]
        ELSE [returned |-> "grid", result |-> res.pixelData, error |-> Null,
              hasLoadedImage |-> TRUE]

(***************************************************************************)
(* Inputs of the image functions.                                          *)
(***************************************************************************)
MaxPixels == 3
MaxK == 3
MaxSamples == 4
MaxPalette == 3

Pix(r, g, b, a) == [r |-> r, g |-> g, b |-> b, a |-> a]

PixelValues ==
  {Pix(0, 0, 0, 255), Pix(255, 255, 255, 255), Pix(100, 150, 200, 255),
   Pix(255, 0, 0, 128), Pix(0, 0, 255, 127)}

Bead(id, r, g, b) == [id |-> id, rgb |-> [r |-> r, g |-> g, b |-> b], lab |-> NoLab]

RedBlue == <<Bead("red", 255, 0, 0), Bead("blue", 0, 0, 255)>>

BeadPalettes ==
  {<<>>, RedBlue, <<Bead("white", 255, 255, 255), Bead("black", 0, 0, 0)>>}

\* the 2x2 picture red, red / blue, blue, fully opaque
ScenarioPixels ==
  <<Pix(255, 0, 0, 255), Pix(255, 0, 0, 255), Pix(0, 0, 255, 255), Pix(0, 0, 255, 255)>>

\* a target size (a side may be 0) with the pixels the canvas then holds
SizedDrawings(w, h) ==
  IF w * h = 0 THEN {[width |-> w, height |-> h, drawn |-> <<>>]}
  ELSE {[width |-> w, height |-> h, drawn |-> d] : d \in [1 .. w * h -> PixelValues]}

InitPixelate ==
  /\ IdleStore
  /\ \E w \in 0 .. MaxPixels, h \in 0 .. MaxPixels :
       /\ w * h <= MaxPixels
       /\ \E image \in SizedDrawings(w, h) \cup
                       {[width |-> 2, height |-> 2, drawn |-> ScenarioPixels]},
             colorCount \in 0 .. MaxK, beadColors \in BeadPalettes :
            call = [f |-> "processImage", applied |-> FALSE, image |-> image,
                    width |-> image.width, height |-> image.height,
                    colorCount |-> colorCount, beadColors |-> beadColors,
                    out |-> [threw |-> FALSE], hook |-> [returned |-> "none"]]

ProcessImage ==
  /\ call.f = "processImage"
  /\ ~call.applied
  /\ call' = [call EXCEPT
       !.applied = TRUE,
       !.out = pixelateImage(call.image, call.width, call.height,
                             call.colorCount, call.beadColors),
       !.hook = processImage(call.image, call.width, call.height,
                             call.colorCount, call.beadColors)]
  /\ UNCHANGED storeVars

NextPixelate == ProcessImage

SpecPixelate == InitPixelate /\ [][NextPixelate]_vars

\* C13: the 2x2 opaque picture red, red / blue, blue with colorCount 2, target
\* 2x2 and palette {red, blue} pixelizes to [[red, red], [blue, blue]].
C13_ScenarioGrid ==
  (/\ call.f = "processImage"
   /\ call.applied
   /\ call.image.drawn = ScenarioPixels
   /\ call.width = 2 /\ call.height = 2
   /\ call.colorCount = 2
   /\ call.beadColors = RedBlue)
  => call.hook.result = << <<"red", "red">>, <<"blue", "blue">> >>

\* C17: with width <= 0, height <= 0 or colorCount < 1 the caller gets an
\* error and no grid.
C17_InvalidConfigRejected ==
  (/\ call.f = "processImage"
   /\ call.applied
   /\ (call.width <= 0 \/ call.height <= 0 \/ call.colorCount < 1))
  => (/\ call.hook.returned = "null"
      /\ call.hook.result = NoGrid
      /\ call.hook.error # Null)

\* C18: with an empty bead palette and at least one opaque pixel the caller
\* gets an error, not a grid whose cells are all null.
C18_EmptyPaletteRejected ==
  (/\ call.f = "processImage"
   /\ call.applied
   /\ call.width >= 1 /\ call.height >= 1 /\ call.colorCount >= 1
   /\ call.beadColors = <<>>
   /\ \E i \in 1 .. Len(call.image.drawn) : call.image.drawn[i].a >= 128)
  => (/\ call.hook.error # Null
      /\ ~(/\ call.hook.returned = "grid"
           /\ \A y \in 1 .. call.height, x \in 1 .. call.width :
                call.hook.result[y][x] = Null))

\* the colours of the pixels with alpha >= 128, in pixel order
RECURSIVE VisibleSamples(_)
VisibleSamples(data) ==
  IF data = <<>> THEN <<>>
  ELSE (IF Head(data).a >= 128 THEN <<RGBOf(Head(data))>> ELSE <<>>)
         \o VisibleSamples(Tail(data))

\* C20: a pixel with alpha < 128 gives a null cell at its position without a
\* call to the matcher, and the quantizer's samples are exactly the pixels
\* with alpha >= 128.
C20_AlphaThreshold ==
  (/\ call.f = "processImage"
   /\ call.applied
   /\ ~call.out.threw)
  => /\ \A y \in 1 .. call.height, x \in 1 .. call.width :
          call.image.drawn[(y - 1) * call.width + x].a < 128
            => (/\ call.out.pixelData[y][x] = Null
                /\ ~call.out.cells[y][x].matched)
     /\ call.out.samples = VisibleSamples(call.image.drawn)

\* a picture with a pixel of alpha 127 next to one of alpha 128
C20_Witness ==
  /\ call.f = "processImage"
  /\ call.applied
  /\ call.width = 2 /\ call.height = 1
  /\ call.image.drawn[1].a = 127
  /\ call.image.drawn[2].a = 128
  /\ call.beadColors = RedBlue
  /\ call.out.pixelData = << <<Null, "red">> >>
  /\ call.out.samples = << [r |-> 255, g |-> 0, b |-> 0] >>

\* C21: for a picture without any pixel of alpha >= 128 the quantizer
\* returns the single colour white and pixelateImage returns a
\* height x width grid of null cells, without an error.
C21_TransparentImage ==
  (/\ call.f = "processImage"
   /\ call.applied
   /\ call.width >= 1 /\ call.height >= 1
   /\ \A i \in 1 .. Len(call.image.drawn) : call.image.drawn[i].a < 128)
  => /\ ~call.out.threw
     /\ call.out.palette = << [r |-> 255, g |-> 255, b |-> 255] >>
     /\ call.out.pixelData = [y \in 1 .. call.height |-> [x \in 1 .. call.width |-> Null]]
     /\ call.hook.returned = "grid"
     /\ call.hook.error = Null

\* three transparent pixels in a row against a nonempty palette
C21_Witness ==
  /\ call.f = "processImage"
  /\ call.applied
  /\ call.width = 3 /\ call.height = 1
  /\ \A i \in 1 .. 3 : call.image.drawn[i].a = 127
  /\ call.beadColors = RedBlue
  /\ call.colorCount = 2
  /\ call.out.palette = << [r |-> 255, g |-> 255, b |-> 255] >>
  /\ call.out.pixelData = << <<Null, Null, Null>> >>

\* the colour of a quantized palette nearest to rgb in squared RGB
\* distance, the first such in palette order
NearestQuantized(rgb, palette) ==
  palette[CHOOSE i \in 1 .. Len(palette) :
            /\ \A j \in 1 .. Len(palette) :
                 squaredDistance(rgb, palette[i]) <= squaredDistance(rgb, palette[j])
            /\ \A j \in 1 .. i - 1 :
                 squaredDistance(rgb, palette[j]) > squaredDistance(rgb, palette[i])]

\* C26: an opaque cell holds the id of findClosestBeadColor(q, palette) for
\* q the nearest colour of the quantized palette to the sampled pixel (null
\* when the matcher returns null).
C26_MatchThroughQuantized ==
  (/\ call.f = "processImage"
   /\ call.applied
   /\ ~call.out.threw)
  => \A y \in 1 .. call.height, x \in 1 .. call.width :
       LET p == call.image.drawn[(y - 1) * call.width + x]
           q == NearestQuantized(RGBOf(p), medianCutQuantize(
                  [width |-> call.width, height |-> call.height,
                   data |-> call.image.drawn], call.colorCount))
           bead == findClosestBeadColor(q, precomputeLabValues(call.beadColors))
       IN  p.a >= 128 => /\ call.out.cells[y][x].quantizedColor = q
                         /\ call.out.pixelData[y][x] = bead.id

\* black next to white with one quantized colour: the grey between them is
\* matched to white for both cells, where black itself would match black
C26_Witness ==
  /\ call.f = "processImage"
  /\ call.applied
  /\ call.width = 2 /\ call.height = 1
  /\ call.colorCount = 1
  /\ RGBOf(call.image.drawn[1]) = [r |-> 0, g |-> 0, b |-> 0]
  /\ RGBOf(call.image.drawn[2]) = [r |-> 255, g |-> 255, b |-> 255]
  /\ call.out.palette = << [r |-> 128, g |-> 128, b |-> 128] >>
  /\ \E i \in 1 .. Len(call.beadColors) : call.beadColors[i].id = "black"
  /\ call.out.pixelData = << <<"white", "white">> >>

(***************************************************************************)
(* medianCutQuantize on its own: every pixel sequence of up to MaxSamples  *)
(* pixels and every colorCount up to MaxK.                                 *)
(***************************************************************************)
RECURSIVE SeqsUpTo(_, _)
SeqsUpTo(S, n) ==
  IF n = 0 THEN {<<>>}
  ELSE LET shorter == SeqsUpTo(S, n - 1)
       IN  shorter \cup {Append(q, e) : q \in {p \in shorter : Len(p) = n - 1}, e \in S}

InitQuant ==
  /\ IdleStore
  /\ \E data \in SeqsUpTo(PixelValues, MaxSamples), colorCount \in 0 .. MaxK :
       call = [f |-> "medianCutQuantize", applied |-> FALSE,
               imageData |-> [width |-> Len(data), height |-> 1, data |-> data],
               colorCount |-> colorCount, out |-> <<>>,
               work |-> [boxes |-> <<>>, splits |-> <<>>]]

Quantize ==
  /\ call.f = "medianCutQuantize"
  /\ ~call.applied
  /\ call' = [call EXCEPT !.applied = TRUE,
                          !.out = medianCutQuantize(call.imageData, call.colorCount),
                          !.work = medianCutWork(call.imageData, call.colorCount)]
  /\ UNCHANGED storeVars

NextQuant == Quantize

SpecQuant == InitQuant /\ [][NextQuant]_vars

\* the opaque samples of the call, stated from the pixels
OpaqueColors(data) ==
  {RGBOf(data[i]) : i \in {j \in 1 .. Len(data) : data[j].a >= 128}}

\* C14: for nonempty opaque samples and k >= 1 the number of colours returned
\* is at most the number of distinct colours among the samples.
C14_AtMostDistinctColors ==
  (/\ call.f = "medianCutQuantize"
   /\ call.applied
   /\ OpaqueColors(call.imageData.data) # {}
   /\ call.colorCount >= 1)
  => Len(call.out) <= Cardinality(OpaqueColors(call.imageData.data))

\* C15: for nonempty opaque samples and k >= 1 the result has at least 1 and
\* at most k colours.
C15_BetweenOneAndK ==
  (/\ call.f = "medianCutQuantize"
   /\ call.applied
   /\ OpaqueColors(call.imageData.data) # {}
   /\ call.colorCount >= 1)
  => (Len(call.out) >= 1 /\ Len(call.out) <= call.colorCount)

\* three distinct opaque colours and k = 2: two colours come back
C15_Witness ==
  /\ call.f = "medianCutQuantize"
  /\ call.applied
  /\ Cardinality(OpaqueColors(call.imageData.data)) = 3
  /\ call.colorCount = 2
  /\ Len(call.out) = 2

\* C16: when all opaque samples have the same colour c, the result is
\* exactly the one colour c, for every k.
C16_UniformInput ==
  (/\ call.f = "medianCutQuantize"
   /\ call.applied
   /\ Cardinality(OpaqueColors(call.imageData.data)) = 1)
  => \A c \in OpaqueColors(call.imageData.data) : call.out = <<c>>

\* the same colour sampled more than once, with room for more boxes
C16_Witness ==
  /\ call.f = "medianCutQuantize"
  /\ call.applied
  /\ Cardinality(OpaqueColors(call.imageData.data)) = 1
  /\ Len(collectColors(call.imageData.data)) >= 2
  /\ call.colorCount >= 2
  /\ call.out = <<[r |-> 100, g |-> 150, b |-> 200]>>

\* the boxes of a list that hold 2 or more colours
Splittable(boxes) == {i \in 1 .. Len(boxes) : Len(boxes[i].colors) >= 2}

\* C25: every split is made while there are fewer than k boxes, on a box
\* with 2 or more colours whose volume is the largest among such boxes; the
\* loop ends with k boxes or when no box with 2 or more colours has a
\* volume above 0, and the colours returned are those of the boxes it ended
\* with.
C25_SplitLargestVolume ==
  (/\ call.f = "medianCutQuantize"
   /\ call.applied
   /\ OpaqueColors(call.imageData.data) # {})
  => /\ \A n \in 1 .. Len(call.work.splits) :
          LET boxes == call.work.splits[n].boxes
              chosen == call.work.splits[n].maxIndex + 1
          IN  /\ Len(boxes) < call.colorCount
              /\ chosen \in Splittable(boxes)
              /\ boxVolume(boxes[chosen]) > 0
              /\ \A i \in Splittable(boxes) :
                   boxVolume(boxes[i]) <= boxVolume(boxes[chosen])
     /\ \/ Len(call.work.boxes) >= call.colorCount
        \/ \A i \in Splittable(call.work.boxes) : boxVolume(call.work.boxes[i]) = 0
     /\ Len(call.work.boxes) = 1 + Len(call.work.splits)
     /\ call.out = [i \in 1 .. Len(call.work.boxes) |-> getAverageColor(call.work.boxes[i])]

\* a second split chosen between two boxes of 2 colours with different volumes
C25_Witness ==
  /\ call.f = "medianCutQuantize"
  /\ call.applied
  /\ Len(call.work.splits) = 2
  /\ LET boxes == call.work.splits[2].boxes
     IN  /\ Cardinality(Splittable(boxes)) = 2
         /\ \E i, j \in Splittable(boxes) :
              boxVolume(boxes[i]) > boxVolume(boxes[j]) /\ boxVolume(boxes[j]) > 0

(***************************************************************************)
(* findClosestBeadColor on its own: every palette of up to MaxPalette      *)
(* entries from a pool with two entries of the same colour, with and       *)
(* without precomputed Lab values.                                         *)
(***************************************************************************)
BeadPool ==
  {Bead("A1", 255, 0, 0), Bead("A2", 255, 0, 0), Bead("B", 0, 0, 255),
   Bead("W", 255, 255, 255)}

MatchTargets ==
  {[r |-> 255, g |-> 0, b |-> 0], [r |-> 0, g |-> 0, b |-> 255],
   [r |-> 128, g |-> 0, b |-> 128], [r |-> 255, g |-> 255, b |-> 255],
   [r |-> 0, g |-> 0, b |-> 0]}

InitMatch ==
  /\ IdleStore
  /\ \E rgb \in MatchTargets, colors \in SeqsUpTo(BeadPool, MaxPalette),
        withLab \in BOOLEAN :
       call = [f |-> "findClosestBeadColor", applied |-> FALSE, rgb |-> rgb,
               colors |-> IF withLab THEN precomputeLabValues(colors) ELSE colors,
               out |-> NoBead]

Match ==
  /\ call.f = "findClosestBeadColor"
  /\ ~call.applied
  /\ call' = [call EXCEPT !.applied = TRUE,
                          !.out = findClosestBeadColor(call.rgb, call.colors)]
  /\ UNCHANGED storeVars

NextMatch == Match

SpecMatch == InitMatch /\ [][NextMatch]_vars

\* the distance of the input colour to entry j of the palette
EntryDistance(j) == deltaE(rgbToLab(call.rgb), rgbToLab(call.colors[j].rgb))

\* C19: the result is null exactly for the empty palette; otherwise it is
\* the entry of least deltaE to the input, the first such in palette order,
\* so it is fixed by the colour and the palette.
C19_ClosestFirstOnTies ==
  (call.f = "findClosestBeadColor" /\ call.applied)
  => /\ (call.out = NoBead) <=> (call.colors = <<>>)
     /\ call.colors # <<>> =>
          \E i \in 1 .. Len(call.colors) :
            /\ call.out = call.colors[i]
            /\ \A j \in 1 .. Len(call.colors) : EntryDistance(i) <= EntryDistance(j)
            /\ \A j \in 1 .. i - 1 : EntryDistance(j) > EntryDistance(i)

\* red against B, A2, A1: A2 and A1 tie at distance 0 and A2 comes first
C19_Witness ==
  /\ call.f = "findClosestBeadColor"
  /\ call.applied
  /\ call.rgb = [r |-> 255, g |-> 0, b |-> 0]
  /\ Len(call.colors) = 3
  /\ call.colors[1].id = "B" /\ call.colors[2].id = "A2" /\ call.colors[3].id = "A1"
  /\ call.out.id = "A2"

(***************************************************************************)
(* The view actions, interleaved with the editing operations.              *)
(***************************************************************************)
MaxViewOps == 2

CELL_SIZE == 20

\* EditorCanvas.calculateFitZoom for a measured container; 1 without a grid
calculateFitZoom(rect, pd) ==
  IF Len(pd) = 0 THEN 1000
  ELSE LET gridWidth == Len(pd[1]) * CELL_SIZE
           gridHeight == Len(pd) * CELL_SIZE
           padding == 40
           availableWidth == rect.width - padding * 2
           availableHeight == rect.height - padding * 2
           scaleX == (availableWidth * 1000) \div gridWidth
           scaleY == (availableHeight * 1000) \div gridHeight
       IN  Min(Min(scaleX, scaleY), 2000)

\* arguments of the view actions
ZoomArgs == {-2000, 0, 99, 100, 5000, 10000, 10001, 1000000}

\* <<dist, previous dist>> of a two-finger move, previous dist > 0
PinchMoves == {<<1, 2>>, <<3, 1>>, <<0, 1>>, <<500, 1>>}

Rects ==
  {[width |-> 0, height |-> 0], [width |-> 200, height |-> 120],
   [width |-> 100000, height |-> 100000]}

PanArgs == {<<0, 0>>, <<-7, 12>>}

Tools == {"brush", "bucket", "eyedropper", "move"}

PartialConfigs ==
  {[colorCount |-> 8], [width |-> 3, height |-> 3], [brand |-> "hama"]}

OriginalImages == {Null, "data:image/png"}

ViewStep(op) ==
  /\ nOps < MaxViewOps
  /\ Step(op)
  /\ UNCHANGED <<pixelData, history, historyIndex, hasLoadedImage, run, trip>>

SetZoom(zoom) ==
  /\ ViewStep("setZoom")
  /\ view' = setZoom(view, zoom)

\* EditorCanvas.handleWheel: setZoom(currentZoom * (deltaY > 0 ? 0.9 : 1.1))
HandleWheel(down) ==
  /\ ViewStep("setZoom")
  /\ view' = setZoom(view, (view.ui.zoom * (IF down THEN 9 ELSE 11)) \div 10)

\* Toolbar zoom buttons: setZoom(ui.zoom * 1.2), setZoom(ui.zoom * 0.8)
ToolbarZoom(in) ==
  /\ ViewStep("setZoom")
  /\ view' = setZoom(view, (view.ui.zoom * (IF in THEN 12 ELSE 8)) \div 10)

\* EditorCanvas.handleTouchMove with two fingers: setZoom(ui.zoom * scale),
\* then setPan
HandleTouchMove(move, pan) ==
  /\ ViewStep("setZoom")
  /\ view' = setPan(setZoom(view, (view.ui.zoom * move[1]) \div move[2]),
                    pan[1], pan[2])

\* the size-change effect of EditorCanvas: setZoom(fitZoom), setPan(0, 0)
FitZoom(rect) ==
  /\ ViewStep("setZoom")
  /\ view' = setPan(setZoom(view, calculateFitZoom(rect, pixelData)), 0, 0)

SetPan(pan) ==
  /\ ViewStep("setPan")
  /\ view' = setPan(view, pan[1], pan[2])

SetMode(mode) ==
  /\ ViewStep("setMode")
  /\ view' = setMode(view, mode)

SetTool(tool) ==
  /\ ViewStep("setTool")
  /\ view' = setTool(view, tool)

SetSelectedColor(colorId) ==
  /\ ViewStep("setSelectedColor")
  /\ view' = setSelectedColor(view, colorId)

SetHighlightColor(colorId) ==
  /\ ViewStep("setHighlightColor")
  /\ view' = setHighlightColor(view, colorId)

SetShowColorCode(show) ==
  /\ ViewStep("setShowColorCode")
  /\ view' = setShowColorCode(view, show)

SetFullscreen(fullscreen) ==
  /\ ViewStep("setFullscreen")
  /\ view' = setFullscreen(view, fullscreen)

SetShowColorStats(show) ==
  /\ ViewStep("setShowColorStats")
  /\ view' = setShowColorStats(view, show)

SetConfig(config) ==
  /\ ViewStep("setConfig")
  /\ view' = setConfig(view, config)

SetOriginalImage(image) ==
  /\ ViewStep("setOriginalImage")
  /\ view' = setOriginalImage(view, image)

\* an editing operation between view actions
StoreOp ==
  /\ nOps < MaxViewOps
  /\ \/ \E data \in Images, saveHistory \in BOOLEAN : SetPixelData(data, saveHistory)
     \/ \E x \in XArgs, y \in YArgs, colorId \in CellValues : SetPixel(x, y, colorId)
     \/ \E x \in XArgs, y \in YArgs, colorId \in Colors : FillArea(x, y, colorId)
     \/ Undo
     \/ Redo
     \/ ResetProject
     \/ \E data \in ProjectFiles : LoadProject(data)
     \/ \E loaded \in BOOLEAN, result \in Results : HandleFileSelect(loaded, result)
     \/ \E result \in Results : HandleApplyConfig(result)

InitView ==
  /\ IdleStore
  /\ call = NoCall

NextView ==
  \/ StoreOp
  \/ \E zoom \in ZoomArgs : SetZoom(zoom)
  \/ \E down \in BOOLEAN : HandleWheel(down)
  \/ \E in \in BOOLEAN : ToolbarZoom(in)
  \/ \E move \in PinchMoves, pan \in PanArgs : HandleTouchMove(move, pan)
  \/ \E rect \in Rects : FitZoom(rect)
  \/ \E pan \in PanArgs : SetPan(pan)
  \/ \E mode \in {"editor", "display"} : SetMode(mode)
  \/ \E tool \in Tools : SetTool(tool)
  \/ \E colorId \in CellValues : SetSelectedColor(colorId)
  \/ \E colorId \in CellValues : SetHighlightColor(colorId)
  \/ \E show \in BOOLEAN : SetShowColorCode(show)
  \/ \E fullscreen \in BOOLEAN : SetFullscreen(fullscreen)
  \/ \E show \in BOOLEAN : SetShowColorStats(show)
  \/ \E config \in PartialConfigs : SetConfig(config)
  \/ \E image \in OriginalImages : SetOriginalImage(image)

SpecView == InitView /\ [][NextView]_vars

\* C22: the stored zoom is never below 0.1 nor above 10, whatever finite
\* value setZoom is called with and whatever else happens to the store.
C22_ZoomClamped ==
  view.ui.zoom >= ZOOM_MIN /\ view.ui.zoom <= ZOOM_MAX

\* two zoom calls in a row that end at the upper limit
C22_Witness ==
  /\ nOps = 2
  /\ last.op = "setZoom"
  /\ view.ui.zoom = ZOOM_MAX
  /\ view.ui.panX = 0 /\ view.ui.panY = 0

ViewOps ==
  {"setZoom", "setPan", "setMode", "setTool", "setSelectedColor",
   "setHighlightColor", "setShowColorCode", "setFullscreen",
   "setShowColorStats", "setConfig", "setOriginalImage"}

\* C29: setZoom, setPan, setMode, setTool, setSelectedColor,
\* setHighlightColor, setShowColorCode, setFullscreen, setShowColorStats,
\* setConfig and setOriginalImage leave pixelData, history and historyIndex
\* unchanged, and setPixelData(data, false) leaves history and historyIndex
\* unchanged.
C29_ViewActionsFrame ==
  [][/\ last'.op \in ViewOps
          => UNCHANGED <<pixelData, history, historyIndex>>
     /\ (\E data \in Images : SetPixelData(data, FALSE))
          => UNCHANGED <<history, historyIndex>>]_vars

\* a view action taken on a store whose history holds an entry
C29_Witness ==
  /\ nOps = 2
  /\ last.op \in ViewOps
  /\ Len(history) = 1
  /\ historyIndex = 0

(***************************************************************************)
(* The view transform (canvasRenderer.ts).  Lengths on screen are in units *)
(* of 0.001 CSS pixel, zoom in units of 0.001, so that every product and   *)
(* quotient below is exact.  A canvas is described by its bounding rect    *)
(* and the devicePixelRatio it was sized with:                             *)
(* canvas.width = rect.width * dpr, and the context is scaled by dpr.      *)
(***************************************************************************)
ViewCols == 3
ViewRows == 2

Canvases ==
  {[left |-> l, top |-> t, rectWidth |-> 400, rectHeight |-> 300, dpr |-> d] :
     l \in {0, 30}, t \in {0, 10}, d \in {1, 2}}

canvasWidth(canvas) == canvas.rectWidth * canvas.dpr

canvasHeight(canvas) == canvas.rectHeight * canvas.dpr

\* renderPixelGrid: where the centre of cell (cx, cy) is drawn, as a client
\* position.  In context units the point is centre + pan + zoom * (cell *
\* cellSize + cellSize / 2 - gridSize / 2); the context is scaled by dpr and
\* the canvas is shown at 1 / dpr, so the same number is its offset in CSS
\* pixels from the canvas corner.
cellCentreOnScreen(canvas, width, height, cellSize, zoom, panX, panY, cx, cy) ==
  LET centerX == canvasWidth(canvas) \div 2
      centerY == canvasHeight(canvas) \div 2
      gridWidth == width * cellSize
      gridHeight == height * cellSize
  IN  [x |-> canvas.left * 1000 + (centerX + panX) * 1000
               + zoom * (cx * cellSize + cellSize \div 2 - gridWidth \div 2),
       y |-> canvas.top * 1000 + (centerY + panY) * 1000
               + zoom * (cy * cellSize + cellSize \div 2 - gridHeight \div 2)]

NoPixel == [found |-> FALSE, x |-> -1, y |-> -1]

\* screenX, screenY in units of 0.001 pixel; NoPixel stands for null
screenToPixel(screenX, screenY, canvas, width, height, cellSize, zoom, panX, panY) ==
  LET canvasX == screenX - canvas.left * 1000
      canvasY == screenY - canvas.top * 1000
      scaleX == canvasWidth(canvas) \div canvas.rectWidth
      scaleY == canvasHeight(canvas) \div canvas.rectHeight
      centerX == canvasWidth(canvas) \div 2
      centerY == canvasHeight(canvas) \div 2
      gridWidth == width * cellSize
      gridHeight == height * cellSize
      \* floor(((canvasX * scaleX - centerX - panX) / zoom + gridWidth / 2) / cellSize)
      pixelX == (canvasX * scaleX - (centerX + panX) * 1000 + zoom * (gridWidth \div 2))
                  \div (zoom * cellSize)
      pixelY == (canvasY * scaleY - (centerY + panY) * 1000 + zoom * (gridHeight \div 2))
                  \div (zoom * cellSize)
  IN  IF pixelX >= 0 /\ pixelX < width /\ pixelY >= 0 /\ pixelY < height
        THEN [found |-> TRUE, x |-> pixelX, y |-> pixelY]
        ELSE NoPixel

ZoomLevels == {ZOOM_MIN, 500, 1000, 2500, ZOOM_MAX}

InitTransform ==
  /\ IdleStore
  /\ \E width \in 1 .. ViewCols, height \in 1 .. ViewRows, canvas \in Canvases,
        zoom \in ZoomLevels, pan \in PanArgs :
       \E cx \in 0 .. width - 1, cy \in 0 .. height - 1 :
         call = [f |-> "screenToPixel", applied |-> 0, canvas |-> canvas,
                 width |-> width, height |-> height, zoom |-> zoom,
                 panX |-> pan[1], panY |-> pan[2], cx |-> cx, cy |-> cy,
                 screen |-> [x |-> 0, y |-> 0], out |-> NoPixel]

\* the cell is drawn
DrawCell ==
  /\ call.f = "screenToPixel"
  /\ call.applied = 0
  /\ call' = [call EXCEPT
       !.applied = 1,
       !.screen = cellCentreOnScreen(call.canvas, call.width, call.height, CELL_SIZE,
                                     call.zoom, call.panX, call.panY, call.cx, call.cy)]
  /\ UNCHANGED storeVars

\* the drawn centre is looked up (EditorCanvas.getPixelAt)
GetPixelAt ==
  /\ call.f = "screenToPixel"
  /\ call.applied = 1
  /\ call' = [call EXCEPT
       !.applied = 2,
       !.out = screenToPixel(call.screen.x, call.screen.y, call.canvas, call.width,
                             call.height, CELL_SIZE, call.zoom, call.panX, call.panY)]
  /\ UNCHANGED storeVars

NextTransform == DrawCell \/ GetPixelAt

SpecTransform == InitTransform /\ [][NextTransform]_vars

\* C23: the centre of an in-bounds cell, taken through the forward transform
\* used for drawing and then through screenToPixel, gives the same cell.
C23_TransformRoundTrip ==
  (call.f = "screenToPixel" /\ call.applied = 2)
  => call.out = [found |-> TRUE, x |-> call.cx, y |-> call.cy]

(***************************************************************************)
(* The store with its arrays as objects.  A grid is an array of row        *)
(* arrays; the heap keeps every row array (rows) and every grid array      *)
(* (grids, each a sequence of row references) ever created, and the store  *)
(* holds references: st.pixelData and the pixelData of each history entry  *)
(* are indices into grids.  setPixelData, undo and redo only move          *)
(* references, so the definitions above apply to them unchanged.           *)
(*   snaps : the contents of the live grid before each operation           *)
(*           (snaps[t + 1] before the operation at time t), not program    *)
(*           state.                                                        *)
(***************************************************************************)
HeapCols == 1
HeapRows == 2
MaxHeapOps == 3

\* the contents of grid g
Deref(H, g) == [r \in 1 .. Len(H.grids[g]) |-> H.rows[H.grids[g][r]]]

\* createEmptyPixelData: one new row array per row
InitialHeap ==
  [rows |-> [r \in 1 .. HeapRows |-> [x \in 1 .. HeapCols |-> Null]],
   grids |-> << [r \in 1 .. HeapRows |-> r] >>,
   st |-> Store(1, <<>>, -1)]

\* variant: the row is written where it is, without a copy
heapSetPixel_inPlace(H, x, y, colorId, now) ==
  LET pixelData_ == Deref(H, H.st.pixelData)
  IN  IF ~InGrid(pixelData_, x, y) THEN H
      ELSE IF pixelData_[y + 1][x + 1] = colorId THEN H
      ELSE LET oldRows == H.grids[H.st.pixelData]
               rows2 == [H.rows EXCEPT ![oldRows[y + 1]][x + 1] = colorId]
               grids2 == Append(H.grids, oldRows)
           IN  [rows |-> rows2, grids |-> grids2,
                st |-> setPixelData(H.st, Len(grids2), TRUE, now)]

\* setPixel: pixelData.map gives a new grid array that shares every row but
\* row y, which is a copy with cell x replaced
heapSetPixel(H, x, y, colorId, now) ==
  LET pixelData_ == Deref(H, H.st.pixelData)
  IN  IF ~InGrid(pixelData_, x, y) THEN H
      ELSE IF pixelData_[y + 1][x + 1] = colorId THEN H
      ELSE LET oldRows == H.grids[H.st.pixelData]
               rows2 == Append(H.rows, [pixelData_[y + 1] EXCEPT ![x + 1] = colorId])
               newData == [r \in 1 .. Len(oldRows) |->
                             IF r = y + 1 THEN Len(rows2) ELSE oldRows[r]]
               grids2 == Append(H.grids, newData)
           IN  [rows |-> rows2, grids |-> grids2,
                st |-> setPixelData(H.st, Len(grids2), TRUE, now)]

\* fillArea: floodFill returns its argument on the early returns, otherwise
\* a grid of copied rows that it has written; the result goes to setPixelData
heapFillArea(H, x, y, colorId, now) ==
  LET pixelData_ == Deref(H, H.st.pixelData)
  IN  IF ~InGrid(pixelData_, x, y) \/ pixelData_[y + 1][x + 1] = colorId
        THEN [H EXCEPT !.st = setPixelData(H.st, H.st.pixelData, TRUE, now)]
      ELSE LET filled == floodFill(pixelData_, x, y, colorId)
               rows2 == H.rows \o filled
               newData == [r \in 1 .. Len(filled) |-> Len(H.rows) + r]
               grids2 == Append(H.grids, newData)
           IN  [rows |-> rows2, grids |-> grids2,
                st |-> setPixelData(H.st, Len(grids2), TRUE, now)]

heapUndo(H) == [H EXCEPT !.st = undo(H.st)]

heapRedo(H) == [H EXCEPT !.st = redo(H.st)]

InitHeap ==
  /\ IdleStore
  /\ call = [f |-> "heap", heap |-> InitialHeap, n |-> 0, snaps |-> <<>>, op |-> "init"]

HeapStep(op, H) ==
  /\ call.f = "heap"
  /\ call.n < MaxHeapOps
  /\ call' = [call EXCEPT !.heap = H, !.n = call.n + 1, !.op = op,
                          !.snaps = Append(call.snaps,
                                           Deref(call.heap, call.heap.st.pixelData))]
  /\ UNCHANGED storeVars

HeapSetPixel(x, y, colorId) ==
  HeapStep("setPixel", heapSetPixel(call.heap, x, y, colorId, call.n))

HeapFillArea(x, y, colorId) ==
  HeapStep("fillArea", heapFillArea(call.heap, x, y, colorId, call.n))

HeapUndo == HeapStep("undo", heapUndo(call.heap))

HeapRedo == HeapStep("redo", heapRedo(call.heap))

NextHeap ==
  \/ \E x \in 0 .. HeapCols, y \in 0 .. HeapRows - 1, colorId \in CellValues :
       HeapSetPixel(x, y, colorId)
  \/ \E x \in 0 .. HeapCols, y \in 0 .. HeapRows - 1, colorId \in Colors :
       HeapFillArea(x, y, colorId)
  \/ HeapUndo
  \/ HeapRedo

SpecHeap == InitHeap /\ [][NextHeap]_vars

\* C27: the grid of every entry in history has the cell contents it had when
\* the entry was pushed, after any later setPixel, fillArea, undo and redo.
C27_HistoryEntriesImmutable ==
  call.f = "heap"
  => \A i \in 1 .. Len(call.heap.st.history) :
       LET entry == call.heap.st.history[i]
       IN  Deref(call.heap, entry.pixelData) = call.snaps[entry.timestamp + 1]

\* after an undo the live grid is the very grid array of an entry, and a
\* setPixel on it has left the entry pushed before the undo as it was
C27_Witness ==
  /\ call.f = "heap"
  /\ call.n = 3
  /\ call.op = "setPixel"
  /\ Len(call.heap.st.history) = 1
  /\ call.heap.st.history[1].timestamp = 2
  /\ call.heap.st.history[1].pixelData = 1
  /\ call.heap.st.pixelData # 1
  /\ \E r \in 1 .. HeapRows :
       call.heap.grids[call.heap.st.pixelData][r] = call.heap.grids[1][r]

====
